---- MODULE Spec2Model ----
(***************************************************************************)
(* Sabadell advisor workflow (4.MAFAdvisorWorkflowEmail.py): the routing   *)
(* conditions, the bridge executors, the two terminal sinks and the graph  *)
(* built by create_sabadell_advisor_workflow, run for one customer         *)
(* question.                                                               *)
(*                                                                         *)
(* A text (Python str) is a sequence of segments, so that string           *)
(* concatenation is \o and the empty string is << >>.  A segment is either *)
(* plain characters or one JSON object; a JSON object maps the field names *)
(* it carries to wire values, and a wire value is a sequence of strings:   *)
(*   <<"string", s>>  <<"number", n>>  <<"true">>  <<"false">>  <<"null">> *)
(*   <<"array", tag1, v1, tag2, v2, ...>>                                  *)
(***************************************************************************)
EXTENDS Integers, Sequences, FiniteSets, TLC

VARIABLES pending, outputs, error, calls, trace, lastText, verdicts, diagnostics, probe

vars == <<pending, outputs, error, calls, trace, lastText, verdicts, diagnostics, probe>>

(***************************************************************************)
(* Bounds of the model.                                                    *)
(***************************************************************************)
MaxCalls == 4
MaxTrace == 16

(***************************************************************************)
(* Texts and the JSON wire format.                                         *)
(***************************************************************************)
NoObj == [f \in {} |-> <<"null">>]

Plain(s) == IF s = "" THEN << >> ELSE <<[kind |-> "plain", str |-> s, obj |-> NoObj]>>

Obj(o) == <<[kind |-> "object", str |-> "", obj |-> o]>>

JStr(s) == <<"string", s>>

JNum(n) == <<"number", n>>

JBool(b) == IF b THEN <<"true">> ELSE <<"false">>

JList(items) ==
    [i \in 1..(2 * Len(items) + 1) |->
        IF i = 1 THEN "array"
        ELSE IF i % 2 = 0 THEN "string" ELSE items[(i - 1) \div 2]]

(***************************************************************************)
(* STRUCTURED OUTPUT MODELS: the pydantic schemas, field name -> type.     *)
(***************************************************************************)
NeedProfile ==
    [product_type |-> "str", customer_type |-> "str", key_constraints |-> "list[str]",
     missing_info |-> "list[str]", structured_query |-> "str"]

ClarityExplanation ==
    [summary |-> "str", pros_cons |-> "list[str]", cta |-> "str", full_content |-> "str"]

ComplianceReview ==
    [approved |-> "bool", issues |-> "list[str]", feedback |-> "str", content |-> "str"]

FinalResponse == [content |-> "str"]

(***************************************************************************)
(* pydantic validation of one wire value against a field type (lax mode,   *)
(* JSON input): a str field takes a JSON string only; a bool field takes   *)
(* true/false, the numbers 0 and 1 and the usual truth words; a list[str]  *)
(* field takes an array whose elements are all strings.                    *)
(***************************************************************************)
TrueWords == {"1", "on", "t", "true", "y", "yes"}

FalseWords == {"0", "off", "f", "false", "n", "no"}

ArrayLen(w) == (Len(w) - 1) \div 2

ValidValue(type, w) ==
    CASE type = "str" -> w[1] = "string"
      [] type = "bool" ->
            \/ w[1] \in {"true", "false"}
            \/ w[1] = "number" /\ w[2] \in {"0", "1"}
            \/ w[1] = "string" /\ w[2] \in TrueWords \cup FalseWords
      [] type = "list[str]" ->
            w[1] = "array" /\ \A i \in 1..ArrayLen(w) : w[2 * i] = "string"

Coerce(type, w) ==
    CASE type = "str" -> w[2]
      [] type = "bool" ->
            \/ w[1] = "true"
            \/ w[1] = "number" /\ w[2] = "1"
            \/ w[1] = "string" /\ w[2] \in TrueWords
      [] type = "list[str]" -> [i \in 1..ArrayLen(w) |-> w[2 * i + 1]]

(***************************************************************************)
(* Model.model_validate_json(text): the text must be one JSON object that  *)
(* carries every field of the schema with a valid value (extra fields are  *)
(* ignored); otherwise it raises ValidationError.                          *)
(***************************************************************************)
Validates(schema, text) ==
    /\ Len(text) = 1
    /\ text[1].kind = "object"
    /\ \A f \in DOMAIN schema :
          /\ f \in DOMAIN text[1].obj
          /\ ValidValue(schema[f], text[1].obj[f])

model_validate_json(schema, text) ==
    IF Validates(schema, text)
    THEN [raised |-> FALSE,
          value |-> [f \in DOMAIN schema |-> Coerce(schema[f], text[1].obj[f])]]
    ELSE [raised |-> TRUE, value |-> << >>]

(***************************************************************************)
(* Model.model_dump_json(): what an agent bound to response_format emits   *)
(* for a record.                                                           *)
(***************************************************************************)
DumpValue(type, v) ==
    CASE type = "str" -> JStr(v)
      [] type = "bool" -> JBool(v)
      [] type = "list[str]" -> JList(v)

model_dump_json(schema, record) ==
    Obj([f \in DOMAIN schema |-> DumpValue(schema[f], record[f])])

(***************************************************************************)
(* Messages travelling along the edges, and the outcome of a Python call:  *)
(* a returned value or a raised exception.                                 *)
(***************************************************************************)
AgentExecutorResponse(text) == [type |-> "AgentExecutorResponse", text |-> text]

AgentExecutorRequest(text) == [type |-> "AgentExecutorRequest", text |-> text]

Return(v) == [raised |-> FALSE, value |-> v, printed |-> {}]

Raise == [raised |-> TRUE, value |-> FALSE, printed |-> {}]

(***************************************************************************)
(* CONDITIONAL ROUTING FUNCTIONS                                           *)
(***************************************************************************)
approved_condition_fail_open(message) ==
    IF message.type # "AgentExecutorResponse"
    THEN Return(TRUE)
    ELSE LET review == model_validate_json(ComplianceReview, message.text)
         IN  IF review.raised THEN Return(TRUE) ELSE Return(review.value.approved)

approved_condition(message) ==
    IF message.type # "AgentExecutorResponse"
    THEN Return(TRUE)
    ELSE LET review == model_validate_json(ComplianceReview, message.text)
         IN  IF review.raised THEN Return(FALSE) ELSE Return(review.value.approved)

rejected_condition_fail_open(message) ==
    IF message.type # "AgentExecutorResponse"
    THEN Return(TRUE)
    ELSE LET review == model_validate_json(ComplianceReview, message.text)
         IN  IF review.raised THEN Return(TRUE) ELSE Return(~review.value.approved)

rejected_condition_not_negated(message) ==
    IF message.type # "AgentExecutorResponse"
    THEN Return(TRUE)
    ELSE LET review == model_validate_json(ComplianceReview, message.text)
         IN  IF review.raised THEN Return(FALSE) ELSE Return(review.value.approved)

rejected_condition(message) ==
    IF message.type # "AgentExecutorResponse"
    THEN Return(TRUE)
    ELSE LET review == model_validate_json(ComplianceReview, message.text)
         IN  IF review.raised THEN Return(FALSE) ELSE Return(~review.value.approved)

missing_info_condition_any_profile(message) ==
    IF message.type # "AgentExecutorResponse"
    THEN Return(FALSE)
    ELSE LET profile == model_validate_json(NeedProfile, message.text)
         IN  IF profile.raised
             THEN Return(FALSE)
             ELSE Return(Len(profile.value.missing_info) >= 0)

missing_info_condition(message) ==
    IF message.type # "AgentExecutorResponse"
    THEN Return(FALSE)
    ELSE LET profile == model_validate_json(NeedProfile, message.text)
         IN  IF profile.raised
             THEN Return(FALSE)
             ELSE Return(Len(profile.value.missing_info) > 0)

has_complete_info_condition_any_profile(message) ==
    IF message.type # "AgentExecutorResponse"
    THEN Return(FALSE)
    ELSE LET profile == model_validate_json(NeedProfile, message.text)
         IN  IF profile.raised
             THEN [raised |-> FALSE, value |-> FALSE,
                   printed |-> {"Error parsing NeedProfile"}]
             ELSE Return(Len(profile.value.missing_info) >= 0)

has_complete_info_condition(message) ==
    IF message.type # "AgentExecutorResponse"
    THEN Return(FALSE)
    ELSE LET profile == model_validate_json(NeedProfile, message.text)
         IN  IF profile.raised
             THEN [raised |-> FALSE, value |-> FALSE,
                   printed |-> {"Error parsing NeedProfile"}]
             ELSE Return(Len(profile.value.missing_info) = 0)

(***************************************************************************)
(* The texts built by the bridge executors and the terminal sinks.  The    *)
(* literals are the source's, without their accents and emoji.             *)
(***************************************************************************)
RECURSIVE BulletLines(_)
BulletLines(items) ==
    IF items = << >> THEN << >>
    ELSE IF Len(items) = 1 THEN Plain("- ") \o Plain(items[1])
    ELSE Plain("- ") \o Plain(items[1]) \o Plain("\n") \o BulletLines(Tail(items))

CopilotQueryText(profile) == Plain(profile.structured_query)

ClarityRequestText(copilot_output) ==
    Plain("Reescribe esta informacion de productos bancarios en lenguaje claro para el cliente:\n\n")
        \o copilot_output

ClarityRevisionText(review) ==
    Plain("Por favor, revisa el contenido segun este feedback de cumplimiento normativo:\n\n")
        \o Plain("PROBLEMAS DETECTADOS:\n") \o BulletLines(review.issues) \o Plain("\n\n")
        \o Plain("FEEDBACK:\n") \o Plain(review.feedback) \o Plain("\n\n")
        \o Plain("CONTENIDO ORIGINAL:\n") \o Plain(review.content)

MoreInfoText(profile) ==
    Plain("**Necesitamos mas informacion para ayudarte mejor:**\n\n")
        \o BulletLines(profile.missing_info) \o Plain("\n\n")
        \o Plain("Por favor, proporciona estos datos para poder ofrecerte las mejores opciones del Banco Sabadell.")

FinalPrefix == Plain("**RESPUESTA FINAL:**\n\n")

FinalText(final) == FinalPrefix \o Plain(final.content)

FallbackText(raw) == FinalPrefix \o raw

(***************************************************************************)
(* The graph of create_sabadell_advisor_workflow.                          *)
(***************************************************************************)
Agents ==
    {"need_profiler", "sabadell_copilot_expert", "clarity_writer",
     "compliance_checker", "publisher"}

Bridges == {"to_copilot_query", "to_clarity_request", "to_clarity_revision"}

Sinks == {"request_more_info", "publish_final_response"}

Nodes == Agents \cup Bridges \cup Sinks

StartExecutor == "need_profiler"

Edge(src, dst, cond) == [src |-> src, dst |-> dst, cond |-> cond]

Edges_revision_to_checker ==
    {Edge("need_profiler", "request_more_info", "missing_info_condition"),
     Edge("need_profiler", "to_copilot_query", "has_complete_info_condition"),
     Edge("to_copilot_query", "sabadell_copilot_expert", "none"),
     Edge("sabadell_copilot_expert", "to_clarity_request", "none"),
     Edge("to_clarity_request", "clarity_writer", "none"),
     Edge("clarity_writer", "compliance_checker", "none"),
     Edge("compliance_checker", "publisher", "approved_condition"),
     Edge("publisher", "publish_final_response", "none"),
     Edge("compliance_checker", "to_clarity_revision", "rejected_condition"),
     Edge("to_clarity_revision", "compliance_checker", "none")}

Edges_expert_also_direct ==
    {Edge("need_profiler", "request_more_info", "missing_info_condition"),
     Edge("need_profiler", "to_copilot_query", "has_complete_info_condition"),
     Edge("to_copilot_query", "sabadell_copilot_expert", "none"),
     Edge("sabadell_copilot_expert", "to_clarity_request", "none"),
     Edge("sabadell_copilot_expert", "clarity_writer", "none"),
     Edge("to_clarity_request", "clarity_writer", "none"),
     Edge("clarity_writer", "compliance_checker", "none"),
     Edge("compliance_checker", "publisher", "approved_condition"),
     Edge("publisher", "publish_final_response", "none"),
     Edge("compliance_checker", "to_clarity_revision", "rejected_condition"),
     Edge("to_clarity_revision", "clarity_writer", "none")}

Edges ==
    {Edge("need_profiler", "request_more_info", "missing_info_condition"),
     Edge("need_profiler", "to_copilot_query", "has_complete_info_condition"),
     Edge("to_copilot_query", "sabadell_copilot_expert", "none"),
     Edge("sabadell_copilot_expert", "to_clarity_request", "none"),
     Edge("to_clarity_request", "clarity_writer", "none"),
     Edge("clarity_writer", "compliance_checker", "none"),
     Edge("compliance_checker", "publisher", "approved_condition"),
     Edge("publisher", "publish_final_response", "none"),
     Edge("compliance_checker", "to_clarity_revision", "rejected_condition"),
     Edge("to_clarity_revision", "clarity_writer", "none")}

Condition(cond, message) ==
    CASE cond = "missing_info_condition" -> missing_info_condition(message)
      [] cond = "has_complete_info_condition" -> has_complete_info_condition(message)
      [] cond = "approved_condition" -> approved_condition(message)
      [] cond = "rejected_condition" -> rejected_condition(message)
      [] cond = "none" -> Return(TRUE)

OutEdges(n) == {e \in Edges : e.src = n}

(***************************************************************************)
(* What the five agents can answer.  An agent is opaque: it answers with   *)
(* some text or its call raises.  The texts cover the records of the       *)
(* agent's response_format and texts that do not validate against it.      *)
(***************************************************************************)
Without(o, f) == [g \in DOMAIN o \ {f} |-> o[g]]

With(o, f, w) == [g \in DOMAIN o \cup {f} |-> IF g = f THEN w ELSE o[g]]

Questions ==
    {"Quiero informacion del banco",
     "Quiero hipoteca tipo fijo, gano 3000, soy nuevo cliente"}

Profiles ==
    [product_type : {"hipoteca"}, customer_type : {"nuevo"},
     key_constraints : {<<"tipo fijo">>},
     missing_info : {<< >>, <<"ingresos">>, <<"ingresos", "residencia">>},
     structured_query : {"", "Explica las hipotecas fijas"}]

SampleProfile == model_dump_json(NeedProfile, CHOOSE p \in Profiles : p.missing_info # << >>)[1].obj

ProfilerTexts ==
    {model_dump_json(NeedProfile, p) : p \in Profiles}
        \cup {Plain("Lo siento, no puedo ayudar"), << >>,
              Obj(Without(SampleProfile, "missing_info")),
              Obj(With(SampleProfile, "missing_info", JStr("ingresos"))),
              Obj(With(SampleProfile, "missing_info", <<"array", "number", "1">>))}

ExpertTexts == {Plain("Hipoteca Fija Sabadell: TIN 2,5%"), << >>}

Explanations ==
    [summary : {"resumen"}, pros_cons : {<<"sin comisiones">>}, cta : {"bancsabadell.com"},
     full_content : {"contenido"}]

ClarityTexts ==
    {model_dump_json(ClarityExplanation, x) : x \in Explanations}
        \cup {Plain("contenido sin formato")}

Reviews ==
    [approved : BOOLEAN, issues : {<< >>, <<"falta disclaimer", "lenguaje prescriptivo">>},
     feedback : {"anade el disclaimer"}, content : {"contenido"}]

SampleReview == model_dump_json(ComplianceReview, CHOOSE r \in Reviews : r.approved)[1].obj

ReviewTexts ==
    {model_dump_json(ComplianceReview, r) : r \in Reviews}
        \cup {Plain("aprobado"),
              Obj(Without(SampleReview, "approved")),
              Obj(With(SampleReview, "approved", JStr("yes"))),
              Obj(With(SampleReview, "approved", JNum("0"))),
              Obj(With(SampleReview, "approved", JStr("quizas"))),
              Obj(With(SampleReview, "approved", <<"null">>))}

Finals == [content : {"## Hipotecas", "## Cuentas"}]

PublisherTexts ==
    {model_dump_json(FinalResponse, f) : f \in Finals}
        \cup {Plain("## Hipotecas"), Obj([content |-> JNum("1")]), Obj(SampleReview)}

AgentTexts(n) ==
    CASE n = "need_profiler" -> ProfilerTexts
      [] n = "sabadell_copilot_expert" -> ExpertTexts
      [] n = "clarity_writer" -> ClarityTexts
      [] n = "compliance_checker" -> ReviewTexts
      [] n = "publisher" -> PublisherTexts

AgentResults(n) ==
    {[raised |-> FALSE, text |-> t] : t \in AgentTexts(n)}
        \cup {[raised |-> TRUE, text |-> << >>]}

(***************************************************************************)
(* The run of one customer question.                                       *)
(*   pending      the messages delivered to each node and not yet handled  *)
(*   outputs      what the sinks have yielded, in order                    *)
(*   error        the run-level error, "none" while there is none          *)
(*   calls        how often each node has been invoked (up to MaxCalls)    *)
(*   trace        the nodes in the order invoked (up to MaxTrace)          *)
(*   lastText     the text of each agent's latest response                 *)
(*   verdicts     what each Compliance Checker response said, in order     *)
(*                (up to MaxCalls)                                         *)
(*   diagnostics  the diagnostics printed                                  *)
(*   probe        a message handed to the routing functions directly       *)
(***************************************************************************)
NoPending == [n \in Nodes |-> << >>]

NoProbe ==
    [message |-> AgentExecutorRequest(<< >>), approved |-> "pending",
     rejected |-> "pending", missing_info |-> "pending", has_complete_info |-> "pending"]

RunInit ==
    /\ \E q \in Questions :
          pending = [NoPending EXCEPT ![StartExecutor] = <<AgentExecutorRequest(Plain(q))>>]
    /\ outputs = << >>
    /\ error = "none"
    /\ calls = [n \in Nodes |-> 0]
    /\ trace = << >>
    /\ lastText = [n \in Agents |-> << >>]
    /\ verdicts = << >>
    /\ diagnostics = {}

Init == RunInit /\ probe = NoProbe

Verdict(text) ==
    LET review == model_validate_json(ComplianceReview, text)
    IN  IF review.raised THEN "unparseable"
        ELSE IF review.value.approved THEN "approved" ELSE "rejected"

Responded(n, text) ==
    /\ lastText' = [lastText EXCEPT ![n] = text]
    /\ verdicts' = IF n = "compliance_checker" /\ Len(verdicts) < MaxCalls
                   THEN Append(verdicts, Verdict(text))
                   ELSE verdicts

Taken(n) == [pending EXCEPT ![n] = Tail(@)]

Invoked(n) ==
    /\ calls' = [calls EXCEPT ![n] = IF @ < MaxCalls THEN @ + 1 ELSE @]
    /\ trace' = IF Len(trace) < MaxTrace THEN Append(trace, n) ELSE trace

Abort(kind) ==
    /\ pending' = NoPending
    /\ error' = kind

Fires(e, message) ==
    LET c == Condition(e.cond, message) IN ~c.raised /\ c.value

Routed(n, message) ==
    [m \in Nodes |->
        IF \E e \in OutEdges(n) : e.dst = m /\ Fires(e, message)
        THEN Append(Taken(n)[m], message)
        ELSE Taken(n)[m]]

send_message(n, message) ==
    /\ diagnostics' =
          diagnostics \cup UNION {Condition(e.cond, message).printed : e \in OutEdges(n)}
    /\ IF \E e \in OutEdges(n) : Condition(e.cond, message).raised
       THEN Abort("ConditionError")
       ELSE pending' = Routed(n, message) /\ error' = error

yield_output(n, text) ==
    /\ outputs' = Append(outputs, [source |-> n, data |-> text])
    /\ pending' = Taken(n)
    /\ error' = error

AgentExecutor(n) ==
    /\ Invoked(n)
    /\ \E result \in AgentResults(n) :
          IF result.raised
          THEN Abort("ProcessorFailure") /\ UNCHANGED <<lastText, verdicts, diagnostics>>
          ELSE /\ Responded(n, result.text)
               /\ send_message(n, AgentExecutorResponse(result.text))
    /\ UNCHANGED <<outputs, probe>>

need_profiler ==
    /\ pending["need_profiler"] # << >>
    /\ AgentExecutor("need_profiler")

sabadell_expert ==
    /\ pending["sabadell_copilot_expert"] # << >>
    /\ AgentExecutor("sabadell_copilot_expert")

clarity_writer ==
    /\ pending["clarity_writer"] # << >>
    /\ AgentExecutor("clarity_writer")

compliance_checker ==
    /\ pending["compliance_checker"] # << >>
    /\ AgentExecutor("compliance_checker")

publisher ==
    /\ pending["publisher"] # << >>
    /\ AgentExecutor("publisher")

to_copilot_query ==
    /\ pending["to_copilot_query"] # << >>
    /\ Invoked("to_copilot_query")
    /\ LET response == Head(pending["to_copilot_query"])
           profile == model_validate_json(NeedProfile, response.text)
       IN  IF profile.raised
           THEN Abort("ValidationError") /\ UNCHANGED diagnostics
           ELSE send_message("to_copilot_query",
                             AgentExecutorRequest(CopilotQueryText(profile.value)))
    /\ UNCHANGED <<outputs, lastText, verdicts, probe>>

to_clarity_request ==
    /\ pending["to_clarity_request"] # << >>
    /\ Invoked("to_clarity_request")
    /\ LET response == Head(pending["to_clarity_request"])
       IN  send_message("to_clarity_request",
                        AgentExecutorRequest(ClarityRequestText(response.text)))
    /\ UNCHANGED <<outputs, lastText, verdicts, probe>>

to_clarity_revision ==
    /\ pending["to_clarity_revision"] # << >>
    /\ Invoked("to_clarity_revision")
    /\ LET response == Head(pending["to_clarity_revision"])
           review == model_validate_json(ComplianceReview, response.text)
       IN  IF review.raised
           THEN Abort("ValidationError") /\ UNCHANGED diagnostics
           ELSE send_message("to_clarity_revision",
                             AgentExecutorRequest(ClarityRevisionText(review.value)))
    /\ UNCHANGED <<outputs, lastText, verdicts, probe>>

request_more_info ==
    /\ pending["request_more_info"] # << >>
    /\ Invoked("request_more_info")
    /\ LET response == Head(pending["request_more_info"])
           profile == model_validate_json(NeedProfile, response.text)
       IN  IF profile.raised
           THEN Abort("ValidationError") /\ UNCHANGED outputs
           ELSE yield_output("request_more_info", MoreInfoText(profile.value))
    /\ UNCHANGED <<lastText, verdicts, diagnostics, probe>>

publish_final_response_aborts ==
    /\ pending["publish_final_response"] # << >>
    /\ Invoked("publish_final_response")
    /\ LET response == Head(pending["publish_final_response"])
           final == model_validate_json(FinalResponse, response.text)
       IN  IF final.raised
           THEN Abort("ValidationError") /\ UNCHANGED <<outputs, diagnostics>>
           ELSE /\ diagnostics' = diagnostics
                /\ yield_output("publish_final_response", FinalText(final.value))
    /\ UNCHANGED <<lastText, verdicts, probe>>

publish_final_response ==
    /\ pending["publish_final_response"] # << >>
    /\ Invoked("publish_final_response")
    /\ LET response == Head(pending["publish_final_response"])
           final == model_validate_json(FinalResponse, response.text)
       IN  IF final.raised
           THEN /\ diagnostics' =
                      diagnostics \cup {"Warning: Could not parse Publisher output as JSON"}
                /\ yield_output("publish_final_response", FallbackText(response.text))
           ELSE /\ diagnostics' = diagnostics
                /\ yield_output("publish_final_response", FinalText(final.value))
    /\ UNCHANGED <<lastText, verdicts, probe>>

Next ==
    \/ need_profiler
    \/ to_copilot_query
    \/ sabadell_expert
    \/ to_clarity_request
    \/ clarity_writer
    \/ compliance_checker
    \/ to_clarity_revision
    \/ publisher
    \/ request_more_info
    \/ publish_final_response

Spec == Init /\ [][Next]_vars

(***************************************************************************)
(* The same run under the scheduling of the engine: a node that holds a    *)
(* pending message is eventually run.                                      *)
(***************************************************************************)
FairSpec == Spec /\ WF_vars(Next)

(***************************************************************************)
(* The routing functions called directly on an arbitrary message: a stage  *)
(* response, a request or a bare string, carrying any text an agent can    *)
(* produce.  Each call records "True", "False" or "raised".                *)
(***************************************************************************)
ProbeTexts == ProfilerTexts \cup ExpertTexts \cup ClarityTexts \cup ReviewTexts \cup PublisherTexts

ProbeMessages ==
    [type : {"AgentExecutorResponse", "AgentExecutorRequest", "str"}, text : ProbeTexts]

Show(outcome) ==
    IF outcome.raised THEN "raised" ELSE IF outcome.value THEN "True" ELSE "False"

ProbeInit ==
    /\ RunInit
    /\ \E m \in ProbeMessages : probe = [NoProbe EXCEPT !.message = m]

RunVars == <<pending, outputs, error, calls, trace, lastText, verdicts, diagnostics>>

call_approved_condition ==
    /\ probe.approved = "pending"
    /\ probe' = [probe EXCEPT !.approved = Show(approved_condition(probe.message))]
    /\ UNCHANGED RunVars

call_rejected_condition ==
    /\ probe.rejected = "pending"
    /\ probe' = [probe EXCEPT !.rejected = Show(rejected_condition(probe.message))]
    /\ UNCHANGED RunVars

call_missing_info_condition ==
    /\ probe.missing_info = "pending"
    /\ probe' = [probe EXCEPT !.missing_info = Show(missing_info_condition(probe.message))]
    /\ UNCHANGED RunVars

call_has_complete_info_condition ==
    /\ probe.has_complete_info = "pending"
    /\ probe' = [probe EXCEPT
                    !.has_complete_info = Show(has_complete_info_condition(probe.message))]
    /\ UNCHANGED RunVars

ProbeNext ==
    \/ call_approved_condition
    \/ call_rejected_condition
    \/ call_missing_info_condition
    \/ call_has_complete_info_condition

ProbeSpec == ProbeInit /\ [][ProbeNext]_vars

(***************************************************************************)
(* Properties of the run.                                                  *)
(***************************************************************************)
Stopped == pending = NoPending

Activated(n) == pending[n] # << >> \/ calls[n] > 0

OutputsOf(n) == SelectSeq(outputs, LAMBDA o : o.source = n)

ProfilerAnswer == model_validate_json(NeedProfile, lastText["need_profiler"])

PublisherAnswer == model_validate_json(FinalResponse, lastText["publisher"])

IsAgent(n) == n \in Agents

StageTrace == SelectSeq(trace, IsAgent)

\* C1: the Publisher is activated, and publish_final_response emits, only if
\* the latest Compliance Checker response parsed as a ComplianceReview with
\* approved = true; a rejected or unparseable review never leads there.
C1_PublisherOnlyAfterApproval ==
    (Activated("publisher") \/ Activated("publish_final_response")
        \/ OutputsOf("publish_final_response") # << >>)
    => /\ calls["compliance_checker"] > 0
       /\ Verdict(lastText["compliance_checker"]) = "approved"

C1_Witness ==
    /\ OutputsOf("publish_final_response") # << >>
    /\ calls["to_clarity_revision"] > 0
    /\ Verdict(lastText["compliance_checker"]) = "approved"

LaterNodes == Nodes \ {"need_profiler", "request_more_info"}

MissingInfoReported ==
    /\ ~ProfilerAnswer.raised
    /\ ProfilerAnswer.value.missing_info # << >>

\* C2: whenever the Need Profiler answers a NeedProfile with non-empty
\* missing_info, the response goes to request_more_info and nowhere else, the
\* run's output is the missing-info listing of that profile, and the Product
\* Expert and every later node is never invoked.
C2_MissingInfoShortCircuit ==
    MissingInfoReported
    => /\ \A n \in LaterNodes : ~Activated(n)
       /\ error = "none"
       /\ IF calls["request_more_info"] = 0
          THEN /\ pending["request_more_info"]
                     = <<AgentExecutorResponse(lastText["need_profiler"])>>
               /\ outputs = << >>
          ELSE /\ Stopped
               /\ calls["request_more_info"] = 1
               /\ outputs = <<[source |-> "request_more_info",
                               data |-> MoreInfoText(ProfilerAnswer.value)]>>
               /\ \E i \in 1..Len(outputs[1].data) :
                     outputs[1].data[i].str = ProfilerAnswer.value.missing_info[1]

C2_Witness ==
    /\ MissingInfoReported
    /\ Len(ProfilerAnswer.value.missing_info) = 2
    /\ Stopped
    /\ Len(outputs) = 1

IsPrefix(a, b) == Len(a) <= Len(b) /\ a = SubSeq(b, 1, Len(a))

HappyStages ==
    <<"need_profiler", "sabadell_copilot_expert", "clarity_writer", "compliance_checker",
      "publisher">>

HappyPath ==
    <<"need_profiler", "to_copilot_query", "sabadell_copilot_expert", "to_clarity_request",
      "clarity_writer", "compliance_checker", "publisher", "publish_final_response">>

ApprovedAtOnce ==
    /\ ~ProfilerAnswer.raised
    /\ ProfilerAnswer.value.missing_info = << >>
    /\ verdicts # << >>
    /\ verdicts[1] = "approved"

\* C3: when the NeedProfile has empty missing_info and the Compliance Checker
\* approves on its first review, the stages run once each in the order Need
\* Profiler, Product Expert, Clarity Writer, Compliance Checker, Publisher,
\* request_more_info never fires, and the run's terminal output is the fixed
\* final-response prefix followed by the Publisher's content field unmodified.
C3_ApprovedAtOncePath ==
    ApprovedAtOnce
    => /\ ~Activated("request_more_info")
       /\ ~Activated("to_clarity_revision")
       /\ verdicts = <<"approved">>
       /\ IsPrefix(trace, HappyPath)
       /\ IsPrefix(StageTrace, HappyStages)
       /\ Len(StageTrace) >= 4
       /\ \A n \in Nodes : calls[n] <= 1
       /\ (Stopped /\ error = "none")
             => /\ trace = HappyPath
                /\ Len(outputs) = 1
                /\ outputs[1].source = "publish_final_response"
                /\ \A f \in Finals :
                      lastText["publisher"] = model_dump_json(FinalResponse, f)
                      => outputs[1].data = FinalPrefix \o Plain(f.content)
       /\ error # "none" => (StageTrace = HappyStages /\ outputs = << >>)

C3_Witness ==
    /\ ApprovedAtOnce
    /\ Stopped
    /\ error = "none"
    /\ \E f \in Finals :
          /\ lastText["publisher"] = model_dump_json(FinalResponse, f)
          /\ outputs = <<[source |-> "publish_final_response",
                          data |-> FinalPrefix \o Plain(f.content)]>>

RejectedThenApproved(k) ==
    /\ Len(verdicts) = k + 1
    /\ \A i \in 1..k : verdicts[i] = "rejected"
    /\ verdicts[k + 1] = "approved"

\* C4: if the Compliance Checker rejects k times and then approves, the run
\* invokes the Clarity Writer exactly k+1 times and the Compliance Checker
\* exactly k+1 times, each rejection re-entering the Clarity Writer through
\* to_clarity_revision, and then reaches the Publisher exactly once.
C4_RejectionsThenApproval ==
    \A k \in 0..(MaxCalls - 2) :
        RejectedThenApproved(k)
        => /\ calls["clarity_writer"] = k + 1
           /\ calls["compliance_checker"] = k + 1
           /\ calls["to_clarity_revision"] = k
           /\ \A i \in 1..Len(trace) :
                 (trace[i] = "clarity_writer" /\ i > 5)
                 => /\ trace[i - 1] = "to_clarity_revision"
                    /\ trace[i - 2] = "compliance_checker"
           /\ Activated("publisher")
           /\ calls["publisher"] <= 1
           /\ Stopped => calls["publisher"] = 1
           /\ (Stopped /\ error = "none") => Len(OutputsOf("publish_final_response")) = 1

C4_Witness ==
    /\ RejectedThenApproved(2)
    /\ Stopped
    /\ calls["clarity_writer"] = 3
    /\ calls["publisher"] = 1
    /\ Len(outputs) = 1

\* C5: a run in which the Compliance Checker always answers approved = false
\* does not loop forever: it stops (in a terminal error) instead of re-entering
\* the Clarity Writer again and again.  The only cycle of the graph passes
\* through a rejection, so the runs that never stop are exactly those in which
\* every review is a rejection.
C5_AlwaysRejectedRunStops == <>Stopped

\* C6: every run that stops has produced exactly one of three outcomes: the
\* missing-info text, the final-response text, or a run-level error; no run
\* stops with no output and no error, and none produces two of them.
C6_ExactlyOneOutcome ==
    Stopped
    => Len(OutputsOf("request_more_info")) + Len(OutputsOf("publish_final_response"))
          + (IF error # "none" THEN 1 ELSE 0) = 1

ExpectedSchema(n) ==
    CASE n = "need_profiler" -> NeedProfile
      [] n = "clarity_writer" -> ClarityExplanation
      [] n = "compliance_checker" -> ComplianceReview

\* C7: when a stage other than the Publisher fails or answers with output that
\* does not match its record schema, the run is aborted with a run-level
\* error, no further node is dispatched and neither sink emits output.
C7_SchemaViolationAborts ==
    \A n \in {"need_profiler", "clarity_writer", "compliance_checker"} :
        (calls[n] > 0 /\ ~Validates(ExpectedSchema(n), lastText[n]))
        => /\ error # "none"
           /\ Stopped
           /\ outputs = << >>

(***************************************************************************)
(* Properties of the routing functions.                                    *)
(***************************************************************************)
Py(b) == IF b THEN "True" ELSE "False"

IsResponse(message) == message.type = "AgentExecutorResponse"

\* C8: for every well-formed NeedProfile delivered as a stage response,
\* has_complete_info_condition is true exactly when missing_info is empty and
\* missing_info_condition is true exactly when it is non-empty, so exactly one
\* of the two is true.
C8_ProfileConditionsComplementary ==
    \A p \in Profiles :
        probe.message = AgentExecutorResponse(model_dump_json(NeedProfile, p))
        => /\ probe.has_complete_info \in {"pending", Py(p.missing_info = << >>)}
           /\ probe.missing_info \in {"pending", Py(p.missing_info # << >>)}
           /\ (probe.has_complete_info # "pending" /\ probe.missing_info # "pending")
                 => (probe.has_complete_info = "True") # (probe.missing_info = "True")

C8_Witness ==
    /\ \E p \in Profiles :
          /\ p.missing_info = << >>
          /\ probe.message = AgentExecutorResponse(model_dump_json(NeedProfile, p))
    /\ probe.has_complete_info = "True"
    /\ probe.missing_info = "False"

\* C9: for every well-formed ComplianceReview r delivered as a stage response,
\* approved_condition returns r.approved and rejected_condition returns
\* not r.approved.
C9_ReviewConditionsFollowApproved ==
    \A r \in Reviews :
        probe.message = AgentExecutorResponse(model_dump_json(ComplianceReview, r))
        => /\ probe.approved \in {"pending", Py(r.approved)}
           /\ probe.rejected \in {"pending", Py(~r.approved)}

C9_Witness ==
    /\ \E r \in Reviews :
          /\ r.approved
          /\ probe.message = AgentExecutorResponse(model_dump_json(ComplianceReview, r))
    /\ probe.approved = "True"
    /\ probe.rejected = "False"

\* C10: for every input that cannot be interpreted as the expected record
\* (the message is not a stage response, or its text does not parse to the
\* schema), has_complete_info_condition, missing_info_condition and
\* approved_condition return false and none of them raises.
C10_UninterpretableIsFalse ==
    /\ (~IsResponse(probe.message) \/ ~Validates(NeedProfile, probe.message.text))
          => /\ probe.has_complete_info \in {"pending", "False"}
             /\ probe.missing_info \in {"pending", "False"}
    /\ (~IsResponse(probe.message) \/ ~Validates(ComplianceReview, probe.message.text))
          => probe.approved \in {"pending", "False"}

\* C11: rejected_condition returns false, and does not raise, for every input
\* that is not a ComplianceReview: a message that is not a stage response, or
\* a response whose text does not parse as ComplianceReview.
C11_RejectedFalseOnNonReview ==
    (~IsResponse(probe.message) \/ ~Validates(ComplianceReview, probe.message.text))
    => probe.rejected \in {"pending", "False"}

(***************************************************************************)
(* Properties of the run, continued.                                       *)
(***************************************************************************)
FallbackUsed ==
    /\ calls["publish_final_response"] > 0
    /\ PublisherAnswer.raised

ParseWarning == "Warning: Could not parse Publisher output as JSON"

\* C12: if the Publisher's output cannot be parsed as a FinalResponse the run
\* does not abort: publish_final_response still emits exactly one terminal
\* output, the prefix followed by the raw stage text, and a diagnostic for the
\* parse failure.
C12_PublisherFallback ==
    FallbackUsed
    => /\ error = "none"
       /\ Len(outputs) = 1
       /\ outputs[1].source = "publish_final_response"
       /\ outputs[1].data = FinalPrefix \o lastText["publisher"]
       /\ ParseWarning \in diagnostics

C12_Witness ==
    /\ FallbackUsed
    /\ lastText["publisher"] = Obj([content |-> JNum("1")])
    /\ Len(outputs) = 1
    /\ Stopped

Receivers == {n \in Nodes : Len(pending'[n]) > Len(pending[n])}

FiredBy(n, text) == {e \in OutEdges(n) : Fires(e, AgentExecutorResponse(text))}

InFlight == {n \in Nodes : pending[n] # << >>}

\* C13: at each decision point (completion of the Need Profiler, completion of
\* the Compliance Checker), for every possible output of the stage at most one
\* of its two guarded edges fires, so no step of a run activates two
\* downstream branches.
C13_AtMostOneBranch ==
    [][/\ Cardinality(Receivers) <= 1
       /\ \A n \in {"need_profiler", "compliance_checker"} :
             \A text \in AgentTexts(n) : Cardinality(FiredBy(n, text)) <= 1]_vars

C13_Witness ==
    /\ calls["need_profiler"] = 1
    /\ calls["compliance_checker"] = 2
    /\ InFlight = {"publisher"}

\* C14: within one run no stage ever has two activations pending or executing
\* at the same time; in particular the Clarity Writer, fed by to_clarity_request
\* and to_clarity_revision, never receives a second request while an earlier
\* one is still being processed.
C14_OneActivationPerStage ==
    /\ \A n \in Nodes : Len(pending[n]) <= 1
    /\ Cardinality(InFlight) <= 1

C14_Witness ==
    /\ InFlight = {"clarity_writer"}
    /\ calls["clarity_writer"] = 1
    /\ calls["to_clarity_revision"] = 1

\* C15: every NeedProfile on which the workflow proceeds (missing_info empty)
\* has a non-empty structured_query, so the query message that
\* to_copilot_query sends to the Product Expert is never empty.
C15_QueryNeverEmpty ==
    /\ (~ProfilerAnswer.raised /\ ProfilerAnswer.value.missing_info = << >>)
          => ProfilerAnswer.value.structured_query # ""
    /\ \A i \in 1..Len(pending["sabadell_copilot_expert"]) :
          pending["sabadell_copilot_expert"][i].text # << >>

LatestReview == model_validate_json(ComplianceReview, lastText["compliance_checker"])

\* C16: no stage is retried because of a failure: nothing runs once the run
\* has an error, the Need Profiler, the Product Expert and the Publisher are
\* each invoked at most once, and the Clarity Writer is invoked a second or
\* later time only on the revision request built from a Compliance Checker
\* output that parsed with approved = false.
C16_NoRetryOnFailure ==
    [][/\ error = "none"
       /\ \A n \in {"need_profiler", "sabadell_copilot_expert", "publisher"} :
             calls[n] <= 1 /\ calls'[n] <= 1
       /\ (pending["clarity_writer"] # << >> /\ calls["clarity_writer"] >= 1)
             => /\ Verdict(lastText["compliance_checker"]) = "rejected"
                /\ pending["clarity_writer"]
                      = <<AgentExecutorRequest(ClarityRevisionText(LatestReview.value))>>
                /\ trace[Len(trace)] = "to_clarity_revision" \/ Len(trace) = MaxTrace]_vars

C16_Witness ==
    /\ calls["clarity_writer"] = 2
    /\ calls["compliance_checker"] = 1
    /\ InFlight = {"compliance_checker"}
    /\ verdicts = <<"rejected">>

Successors(n) == {e.dst : e \in OutEdges(n)}

RECURSIVE ReachableWithin(_, _)
ReachableWithin(S, k) ==
    IF k = 0 THEN S
    ELSE ReachableWithin(S \cup UNION {Successors(n) : n \in S}, k - 1)

ReachableFrom(n) == ReachableWithin(Successors(n), Cardinality(Nodes))

OnCycle == {n \in Nodes : n \in ReachableFrom(n)}

RevisionLoop == {"clarity_writer", "compliance_checker", "to_clarity_revision"}

\* C17: the graph has exactly one cycle, Clarity Writer -> Compliance Checker
\* -> to_clarity_revision -> Clarity Writer; no other node can reach itself
\* (so none is invoked twice in a run), and the Need Profiler and the Product
\* Expert lie on no cycle.
C17_OnlyTheRevisionCycle ==
    /\ OnCycle = RevisionLoop
    /\ {<<e.src, e.dst>> : e \in {d \in Edges : d.src \in OnCycle /\ d.dst \in OnCycle}}
          = {<<"clarity_writer", "compliance_checker">>,
             <<"compliance_checker", "to_clarity_revision">>,
             <<"to_clarity_revision", "clarity_writer">>}
    /\ \A e \in Edges : e.src \in Nodes /\ e.dst \in Nodes
    /\ "need_profiler" \notin OnCycle /\ "sabadell_copilot_expert" \notin OnCycle
    /\ \A n \in Nodes \ RevisionLoop : calls[n] <= 1

C17_Witness ==
    /\ \A n \in RevisionLoop : calls[n] >= 2
    /\ \A n \in Nodes \ (RevisionLoop \cup {"request_more_info"}) : calls[n] = 1
    /\ Stopped

NormalOutputs ==
    {[source |-> "publish_final_response", data |-> FinalText(f)] : f \in Finals}

\* C18: when the Publisher's output fails to parse and the fallback output is
\* used, the run's terminal output is distinguishable from the output of a
\* run that ended normally with a parsed FinalResponse.
C18_FallbackIsFlagged ==
    FallbackUsed => \A i \in 1..Len(outputs) : outputs[i] \notin NormalOutputs

\* C19: once a terminal sink (request_more_info or publish_final_response) has
\* emitted output, no further stage or bridge is activated in the run, and a
\* run emits at most one terminal output in total.
C19_OutputEndsTheRun ==
    /\ Len(outputs) <= 1
    /\ outputs # << >>
          => /\ Stopped
             /\ outputs[1].source \in Sinks
             /\ calls[outputs[1].source] = 1

C19_Witness ==
    /\ Len(OutputsOf("publish_final_response")) = 1
    /\ calls["clarity_writer"] = 2
    /\ Stopped

StrictSchema(n) ==
    CASE n = "to_copilot_query" -> NeedProfile
      [] n = "request_more_info" -> NeedProfile
      [] n = "to_clarity_revision" -> ComplianceReview

StrictParsers == {"to_copilot_query", "request_more_info", "to_clarity_revision"}

\* C20: every bridge or sink that parses its input strictly (to_copilot_query,
\* to_clarity_revision, request_more_info) is reached only through an edge
\* whose condition has parsed the same response text to the same schema, so
\* none of the three ever raises a parse error.
C20_StrictParsersNeverRaise ==
    /\ error # "ValidationError"
    /\ \A n \in StrictParsers :
          /\ \A e \in Edges : e.dst = n => e.cond # "none"
          /\ \A i \in 1..Len(pending[n]) :
                /\ IsResponse(pending[n][i])
                /\ Validates(StrictSchema(n), pending[n][i].text)

C20_Witness ==
    /\ \A n \in StrictParsers \ {"request_more_info"} : calls[n] >= 1
    /\ InFlight = {"to_clarity_revision"}
    /\ lastText["compliance_checker"] \in
          {Obj(With(SampleReview, "approved", JNum("0"))),
           Obj(With(SampleReview, "approved", JStr("yes")))}

ResponseSchema(n) ==
    CASE n = "need_profiler" -> NeedProfile
      [] n = "clarity_writer" -> ClarityExplanation
      [] n = "compliance_checker" -> ComplianceReview
      [] n = "publisher" -> FinalResponse

WellFormedSoFar ==
    /\ error = "none"
    /\ \A n \in Agents \ {"sabadell_copilot_expert"} :
          calls[n] > 0 => Validates(ResponseSchema(n), lastText[n])

RevisionRequested == pending["to_clarity_revision"] # << >>

TerminalOutputEmitted ==
    /\ Stopped
    /\ Len(outputs) = 1
    /\ ~ProfilerAnswer.raised
    /\ IF ProfilerAnswer.value.missing_info # << >>
       THEN outputs[1] = [source |-> "request_more_info",
                          data |-> MoreInfoText(ProfilerAnswer.value)]
       ELSE /\ ~PublisherAnswer.raised
            /\ outputs[1] = [source |-> "publish_final_response",
                             data |-> FinalText(PublisherAnswer.value)]

\* C21: under fair scheduling, if every stage call completes with well-formed
\* output and the Compliance Checker rejects only finitely many times, the run
\* eventually emits a terminal output: the missing-info text when missing_info
\* is non-empty, otherwise the final response.
C21_EventuallyTerminalOutput ==
    ([]WellFormedSoFar /\ <>[]~RevisionRequested) => <>TerminalOutputEmitted

C21_Witness ==
    /\ WellFormedSoFar
    /\ TerminalOutputEmitted
    /\ calls["to_clarity_revision"] = 2
    /\ outputs[1].source = "publish_final_response"

====
